---- MODULE Spec2Model ----
(***************************************************************************)
(* State and versioning engine of the `migrate` tool: migration discovery, *)
(* the .history ledger, the .baseline checkpoint and the status / up /      *)
(* baseline / create commands.                                              *)
(*                                                                         *)
(* Text is modelled as sequences of ASCII codes, files as sequences of    *)
(* lines, so that parsing and formatting are computed as the code does.   *)
(* Timestamps are naturals; their RFC3339 text is the letter T followed    *)
(* by one decimal digit.                                                   *)
(***************************************************************************)
EXTENDS Integers, Sequences, FiniteSets, TLC

VARIABLES
    dir_exists,      \* the migrations directory exists
    files,           \* names of the regular files in the migrations directory
    history_exists,  \* the .history file exists
    history_lines,   \* lines of the .history file
    baseline_file,   \* None, or Some(lines of the .baseline file)
    now,             \* wall clock (Utc::now())
    pc,              \* "idle": no process; "running": inside the loop of
                     \* `up`; "done": the command returned, process not yet gone
    cmd,             \* the command of the current process
    args,            \* its arguments
    result,          \* how it returned
    run,             \* local variables of commands::up::run
    runner_log,      \* the invocations of the external runner by the process
    report,          \* what the command printed: the lines of `status`, the
                     \* path in the error of a failed deletion
    other            \* a second process running `up` on the same directory:
                     \* its position, its `pending`, its runner invocations

vars == <<dir_exists, files, history_exists, history_lines, baseline_file,
          now, pc, cmd, args, result, run, runner_log, report, other>>

----------------------------------------------------------------------------
(* Bounds of the model *)

MaxNow == 1

----------------------------------------------------------------------------
(* Option values *)

None == [some |-> FALSE]

Some(x) == [some |-> TRUE, val |-> x]

Ok(x) == [ok |-> TRUE, val |-> x]

Err(kind) == [ok |-> FALSE, err |-> kind]

\* Result::unwrap_or
OkOr(r, default) == IF r.ok THEN r.val ELSE default

----------------------------------------------------------------------------
(* Strings: sequences of ASCII codes *)

Min(a, b) == IF a <= b THEN a ELSE b

\* Rust's `<` on str: byte-wise lexicographic, a proper prefix is smaller
StrLt(a, b) ==
    \/ Len(a) < Len(b) /\ \A j \in 1..Len(a) : a[j] = b[j]
    \/ \E i \in 1..Min(Len(a), Len(b)) :
          a[i] < b[i] /\ \A j \in 1..(i - 1) : a[j] = b[j]

StrLe(a, b) == a = b \/ StrLt(a, b)

\* char::is_ascii_alphanumeric
IsAsciiAlphanumeric(c) ==
    (c >= 48 /\ c <= 57) \/ (c >= 65 /\ c <= 90) \/ (c >= 97 /\ c <= 122)

\* char::is_whitespace (ASCII part)
IsWhitespace(c) == c = 32 \/ (c >= 9 /\ c <= 13)

StartsWith(s, p) == Len(s) >= Len(p) /\ SubSeq(s, 1, Len(p)) = p

\* str::strip_prefix
strip_prefix(s, p) ==
    IF StartsWith(s, p) THEN Some(SubSeq(s, Len(p) + 1, Len(s))) ELSE None

RECURSIVE trim_start(_)
trim_start(s) ==
    IF s # <<>> /\ IsWhitespace(s[1]) THEN trim_start(Tail(s)) ELSE s

RECURSIVE trim_end(_)
trim_end(s) ==
    IF s # <<>> /\ IsWhitespace(s[Len(s)])
    THEN trim_end(SubSeq(s, 1, Len(s) - 1)) ELSE s

trim(s) == trim_end(trim_start(s))

\* position of the first / last occurrence of c in s, 0 if none
Find(s, c) ==
    IF \E i \in 1..Len(s) : s[i] = c
    THEN CHOOSE i \in 1..Len(s) : s[i] = c /\ \A j \in 1..(i - 1) : s[j] # c
    ELSE 0

RFind(s, c) ==
    IF \E i \in 1..Len(s) : s[i] = c
    THEN CHOOSE i \in 1..Len(s) : s[i] = c /\ \A j \in (i + 1)..Len(s) : s[j] # c
    ELSE 0

----------------------------------------------------------------------------
(* version.rs: base-36 codes *)

\* b"0123456789abcdefghijklmnopqrstuvwxyz"
BASE36_CHARS == [i \in 1..36 |-> IF i <= 10 THEN 47 + i ELSE 86 + i]

\* u32::MAX / 36; u32::MAX = 36 * U32_MAX_DIV_36 + U32_MAX_MOD_36
U32_MAX_DIV_36 == 119304647

U32_MAX_MOD_36 == 3

Reverse(s) == [i \in 1..Len(s) |-> s[Len(s) + 1 - i]]

\* "0".repeat(k)
Zeros(k) == [i \in 1..k |-> 48]

\* the first loop of encode_base36: the digits of n, lowest first
RECURSIVE EncodeDigits(_)
EncodeDigits(n) ==
    IF n > 0 THEN <<BASE36_CHARS[(n % 36) + 1]>> \o EncodeDigits(n \div 36)
    ELSE <<>>

\* the second loop of encode_base36: zeros are pushed while the length is
\* below the width
PadZeros(digits, width) ==
    IF Len(digits) < width THEN digits \o Zeros(width - Len(digits))
    ELSE digits

\* variant: the digits are not reversed
encode_base36_lowest_first(n, width) ==
    IF n = 0 THEN Zeros(width)
    ELSE PadZeros(EncodeDigits(n), width)

encode_base36(n, width) ==
    IF n = 0 THEN Zeros(width)
    ELSE Reverse(PadZeros(EncodeDigits(n), width))

\* the digit of a character, None for a character that is no digit
Base36Digit(c) ==
    IF c >= 48 /\ c <= 57 THEN Some(c - 48)
    ELSE IF c >= 97 /\ c <= 122 THEN Some(c - 97 + 10)
    ELSE IF c >= 65 /\ c <= 90 THEN Some(c - 65 + 10)
    ELSE None

\* result.checked_mul(36)?.checked_add(digit)? on u32
CheckedMulAdd(acc, digit) ==
    IF acc > U32_MAX_DIV_36
       \/ (acc = U32_MAX_DIV_36 /\ digit > U32_MAX_MOD_36)
    THEN None
    ELSE Some(acc * 36 + digit)

\* the loop of decode_base36; acc is None once a `?` or the `return None`
\* was taken
RECURSIVE DecodeFrom(_, _)
DecodeFrom(acc, s) ==
    IF s = <<>> \/ ~acc.some THEN acc
    ELSE IF ~Base36Digit(s[1]).some THEN None
    ELSE DecodeFrom(CheckedMulAdd(acc.val, Base36Digit(s[1]).val), Tail(s))

decode_base36(s) == DecodeFrom(Some(0), s)

\* variant: the slot comes first, the days after it
generate_version_slot_first(t) ==
    encode_base36(t.minutes \div 10, 2) \o encode_base36(t.days, 3)

\* generate_version at the time t = Utc::now(): t.days are the days from
\* 2020-01-01 to the date of t, t.minutes the minutes since midnight
generate_version(t) ==
    encode_base36(t.days, 3) \o encode_base36(t.minutes \div 10, 2)

----------------------------------------------------------------------------
(* version.rs, loader.rs *)

is_valid_version(s) ==
    Len(s) = 5 /\ \A i \in 1..Len(s) : IsAsciiAlphanumeric(s[i])

extract_version(filename) ==
    IF Len(filename) < 6 THEN None
    ELSE IF filename[6] # 45 THEN None
    ELSE IF is_valid_version(SubSeq(filename, 1, 5))
         THEN Some(SubSeq(filename, 1, 5))
         ELSE None

extract_id(filename) ==
    IF RFind(filename, 46) # 0
    THEN SubSeq(filename, 1, RFind(filename, 46) - 1)
    ELSE filename

\* the glob pattern [0-9a-z]x5 followed by "-*"
GlobMatches(filename) ==
    /\ Len(filename) >= 6
    /\ \A i \in 1..5 : (filename[i] >= 48 /\ filename[i] <= 57)
                       \/ (filename[i] >= 97 /\ filename[i] <= 122)
    /\ filename[6] = 45

\* glob yields the matching paths in alphabetical order
RECURSIVE GlobOrder(_)
GlobOrder(S) ==
    IF S = {} THEN <<>>
    ELSE LET f == CHOOSE x \in S : \A y \in S : StrLe(x, y)
         IN  <<f>> \o GlobOrder(S \ {f})

\* slice::sort_by (stable) on the version: insertion of m after every
\* element whose version is not greater
RECURSIVE InsertByVersion(_, _)
InsertByVersion(sorted, m) ==
    IF sorted = <<>> THEN <<m>>
    ELSE IF StrLt(m.version, sorted[1].version) THEN <<m>> \o sorted
    ELSE <<sorted[1]>> \o InsertByVersion(Tail(sorted), m)

\* variant: the migrations are left in the order of the listing
SortByVersion_unsorted(ms) == ms

RECURSIVE SortByVersion(_)
SortByVersion(ms) ==
    IF ms = <<>> THEN <<>>
    ELSE InsertByVersion(SortByVersion(SubSeq(ms, 1, Len(ms) - 1)), ms[Len(ms)])

RECURSIVE ToMigrations(_)
ToMigrations(paths) ==
    IF paths = <<>> THEN <<>>
    ELSE LET v == extract_version(paths[1])
         IN  (IF v.some
              THEN <<[id |-> extract_id(paths[1]), version |-> v.val,
                      file_path |-> paths[1]]>>
              ELSE <<>>) \o ToMigrations(Tail(paths))

discover_migrations(fs) ==
    SortByVersion(ToMigrations(GlobOrder({f \in fs : GlobMatches(f)})))

----------------------------------------------------------------------------
(* Timestamps: chrono's to_rfc3339 / parse_from_rfc3339 *)

to_rfc3339(t) == <<84, 48 + t>>

parse_from_rfc3339(s) ==
    IF Len(s) = 2 /\ s[1] = 84 /\ s[2] >= 48 /\ s[2] <= 57
    THEN Ok(s[2] - 48)
    ELSE Err("parse")

\* str::lines / BufRead::lines on a stored line: a trailing CR is dropped
StripCR(line) ==
    IF line # <<>> /\ line[Len(line)] = 13
    THEN SubSeq(line, 1, Len(line) - 1) ELSE line

\* str::lines on a string holding LF characters
RECURSIVE Lines(_)
Lines(s) ==
    IF s = <<>> THEN <<>>
    ELSE IF Find(s, 10) = 0 THEN <<StripCR(s)>>
    ELSE <<StripCR(SubSeq(s, 1, Find(s, 10) - 1))>>
         \o Lines(SubSeq(s, Find(s, 10) + 1, Len(s)))

\* [String]::join("\n")
RECURSIVE Join(_)
Join(ls) ==
    IF ls = <<>> THEN <<>>
    ELSE IF Len(ls) = 1 THEN ls[1]
    ELSE ls[1] \o <<10>> \o Join(Tail(ls))

----------------------------------------------------------------------------
(* state.rs *)

\* variant: a line whose timestamp does not parse is skipped
HistoryLine_SkipsBadTimestamp(acc, raw) ==
    LET line == trim(StripCR(raw))
        sp   == Find(line, 32)
        ts   == parse_from_rfc3339(SubSeq(line, sp + 1, Len(line)))
    IN  IF ~acc.ok THEN acc
        ELSE IF line = <<>> THEN acc
        ELSE IF sp = 0 THEN acc
        ELSE IF ~ts.ok THEN acc
        ELSE Ok(Append(acc.val, [id |-> SubSeq(line, 1, sp - 1),
                                 applied_at |-> ts.val]))

\* one iteration of the loop of read_history; acc is Ok(applied) or Err
HistoryLine(acc, raw) ==
    LET line == trim(StripCR(raw))
        sp   == Find(line, 32)
        ts   == parse_from_rfc3339(SubSeq(line, sp + 1, Len(line)))
    IN  IF ~acc.ok THEN acc
        ELSE IF line = <<>> THEN acc
        ELSE IF sp = 0 THEN acc
        ELSE IF ~ts.ok THEN Err("parse")
        ELSE Ok(Append(acc.val, [id |-> SubSeq(line, 1, sp - 1),
                                 applied_at |-> ts.val]))

RECURSIVE ReadHistoryLines(_, _)
ReadHistoryLines(acc, lines) ==
    IF lines = <<>> THEN acc
    ELSE ReadHistoryLines(HistoryLine(acc, lines[1]), Tail(lines))

read_history(exists, lines) ==
    IF ~exists THEN Ok(<<>>) ELSE ReadHistoryLines(Ok(<<>>), lines)

\* the line append_history writes
HistoryRecordLine(id, applied_at) == id \o <<32>> \o to_rfc3339(applied_at)

\* variant: the file is opened for writing, not for appending
append_history_truncate(lines, id, applied_at) ==
    <<HistoryRecordLine(id, applied_at)>>

\* variant: an id that has a record is not recorded again
append_history_once(lines, id, applied_at) ==
    IF \E k \in 1..Len(lines) : StartsWith(lines[k], id \o <<32>>)
    THEN lines
    ELSE Append(lines, HistoryRecordLine(id, applied_at))

append_history(lines, id, applied_at) ==
    Append(lines, HistoryRecordLine(id, applied_at))

AppliedIds(applied) == {applied[i].id : i \in 1..Len(applied)}

\* variant: the applied records are not looked at
get_pending_all(available, applied) == available

\* variant: only the migrations after the last applied one are pending
get_pending_after_last_applied(available, applied) ==
    SelectSeq(available, LAMBDA m :
        /\ m.id \notin AppliedIds(applied)
        /\ \A i \in 1..Len(available) :
               available[i].id \in AppliedIds(applied) =>
                   StrLt(available[i].version, m.version))

get_pending(available, applied) ==
    SelectSeq(available, LAMBDA m : m.id \notin AppliedIds(applied))

\* variant: the scan stops at the first match, not the last
get_current_version_first(available, applied) ==
    LET hits == {i \in 1..Len(available) : available[i].id \in AppliedIds(applied)}
    IN  IF hits = {} THEN None
        ELSE Some(available[CHOOSE i \in hits : \A j \in hits : i <= j].version)

\* variant: with no applied migration on disk, the version of the last
\* record of the history
get_current_version_or_last_record(available, applied) ==
    LET hits == {i \in 1..Len(available) : available[i].id \in AppliedIds(applied)}
    IN  IF hits = {}
        THEN (IF applied = <<>> THEN None
              ELSE Some(SubSeq(applied[Len(applied)].id, 1, 5)))
        ELSE Some(available[CHOOSE i \in hits : \A j \in hits : i >= j].version)

get_current_version(available, applied) ==
    LET hits == {i \in 1..Len(available) : available[i].id \in AppliedIds(applied)}
    IN  IF hits = {} THEN None
        ELSE Some(available[CHOOSE i \in hits : \A j \in hits : j <= i].version)

\* variant: the first element is taken, not the last
get_target_version_first(available) ==
    IF available = <<>> THEN None ELSE Some(available[1].version)

get_target_version(available) ==
    IF available = <<>> THEN None ELSE Some(available[Len(available)].version)

----------------------------------------------------------------------------
(* baseline.rs *)

KEY_VERSION == <<118, 101, 114, 115, 105, 111, 110, 58>>

KEY_CREATED == <<99, 114, 101, 97, 116, 101, 100, 58>>

KEY_SUMMARY == <<115, 117, 109, 109, 97, 114, 121, 58>>

INDENT == <<32, 32>>

IndentLines(ls) == [i \in 1..Len(ls) |-> INDENT \o ls[i]]

\* the lines write_baseline puts in the file; b.summary is None or Some(text)
write_baseline(b) ==
    <<KEY_VERSION \o <<32>> \o b.version,
      KEY_CREATED \o <<32>> \o to_rfc3339(b.created)>>
    \o (IF b.summary.some
        THEN <<KEY_SUMMARY \o <<32, 124>>>> \o IndentLines(Lines(b.summary.val))
        ELSE <<>>)

BlockSummary(summary_lines) == Some(trim_end(Join(summary_lines)))

\* the `key: value` part of one iteration of the loop of parse_baseline
ParseKeyValue(st, line) ==
    LET v == strip_prefix(line, KEY_VERSION)
        c == strip_prefix(line, KEY_CREATED)
        s == strip_prefix(line, KEY_SUMMARY)
    IN  IF v.some THEN [st EXCEPT !.version = Some(trim(v.val))]
        ELSE IF c.some
        THEN LET t == parse_from_rfc3339(trim(c.val))
             IN  IF t.ok THEN [st EXCEPT !.created = Some(t.val)]
                 ELSE [st EXCEPT !.err = Some("parse")]
        ELSE IF s.some
        THEN IF trim(s.val) = <<124>> THEN [st EXCEPT !.in_summary = TRUE]
             ELSE IF trim(s.val) # <<>>
             THEN [st EXCEPT !.summary = Some(trim(s.val))]
             ELSE st
        ELSE st

\* variant: the line that ends the summary block is consumed with it
ParseBaselineLine_DropsTerminator(st, line) ==
    IF st.err.some THEN st
    ELSE IF st.in_summary
    THEN IF StartsWith(line, INDENT)
         THEN [st EXCEPT !.summary_lines = Append(@, strip_prefix(line, INDENT).val)]
         ELSE IF line = <<>>
         THEN [st EXCEPT !.summary_lines = Append(@, <<>>)]
         ELSE IF line[1] = 32
         THEN [st EXCEPT !.summary_lines = Append(@, trim_start(line))]
         ELSE [st EXCEPT !.in_summary = FALSE,
                         !.summary = BlockSummary(st.summary_lines),
                         !.summary_lines = <<>>]
    ELSE ParseKeyValue(st, line)

\* one iteration of the loop of parse_baseline
ParseBaselineLine(st, line) ==
    IF st.err.some THEN st
    ELSE IF st.in_summary
    THEN IF StartsWith(line, INDENT)
         THEN [st EXCEPT !.summary_lines = Append(@, strip_prefix(line, INDENT).val)]
         ELSE IF line = <<>>
         THEN [st EXCEPT !.summary_lines = Append(@, <<>>)]
         ELSE IF line[1] = 32
         THEN [st EXCEPT !.summary_lines = Append(@, trim_start(line))]
         ELSE ParseKeyValue([st EXCEPT !.in_summary = FALSE,
                                       !.summary = BlockSummary(st.summary_lines),
                                       !.summary_lines = <<>>], line)
    ELSE ParseKeyValue(st, line)

RECURSIVE ParseBaselineLines(_, _)
ParseBaselineLines(st, lines) ==
    IF lines = <<>> THEN st
    ELSE ParseBaselineLines(ParseBaselineLine(st, StripCR(lines[1])), Tail(lines))

\* the locals of parse_baseline before its loop
ParseBaselineStart ==
    [version |-> None, created |-> None, summary |-> None,
     in_summary |-> FALSE, summary_lines |-> <<>>, err |-> None]

\* parse_baseline after its loop; st holds the locals the loop left
ParseBaselineEnd(st) ==
    IF st.err.some THEN Err("parse")
    ELSE IF ~st.version.some THEN Err("missing_version")
    ELSE IF ~st.created.some THEN Err("missing_created")
    ELSE Ok([version |-> st.version.val, created |-> st.created.val,
             summary |-> IF st.in_summary /\ st.summary_lines # <<>>
                         THEN BlockSummary(st.summary_lines) ELSE st.summary])

parse_baseline(lines) ==
    ParseBaselineEnd(ParseBaselineLines(ParseBaselineStart, lines))

\* Result::map(Some)
MapSome(r) == IF r.ok THEN Ok(Some(r.val)) ELSE r

\* Ok(None), Ok(Some(baseline)) or Err
read_baseline(file) ==
    IF ~file.some THEN Ok(None) ELSE MapSome(parse_baseline(file.val))

version_lte(v1, v2) == StrLe(v1, v2)

\* delete_baselined_migrations: files are removed in the order of
\* `available`; `failing` is the set of paths whose remove_file fails.
\* The result is the directory after the call, whether it returned Ok, and
\* the path the error names.
RECURSIVE DeleteFrom(_, _, _, _)
DeleteFrom(fs, baseline_version, available, failing) ==
    IF available = <<>> THEN [files |-> fs, ok |-> TRUE, failed |-> None]
    ELSE IF version_lte(available[1].version, baseline_version)
            /\ available[1].file_path \in fs
    THEN IF available[1].file_path \in failing
         THEN [files |-> fs, ok |-> FALSE,
               failed |-> Some(available[1].file_path)]
         ELSE DeleteFrom(fs \ {available[1].file_path}, baseline_version,
                         Tail(available), failing)
    ELSE DeleteFrom(fs, baseline_version, Tail(available), failing)

\* variant: the filter is `<`, the migration at the baseline version stays
delete_baselined_migrations_below(fs, baseline_version, available, failing) ==
    [files |-> fs \ {available[i].file_path : i \in
                        {j \in DOMAIN available :
                            StrLt(available[j].version, baseline_version)}},
     ok |-> TRUE, failed |-> None]

\* variant: a failed removal puts the removed files back
delete_baselined_migrations_undo(fs, baseline_version, available, failing) ==
    IF DeleteFrom(fs, baseline_version, available, failing).ok
    THEN DeleteFrom(fs, baseline_version, available, failing)
    ELSE [files |-> fs, ok |-> FALSE,
          failed |-> DeleteFrom(fs, baseline_version, available, failing).failed]

delete_baselined_migrations(fs, baseline_version, available, failing) ==
    DeleteFrom(fs, baseline_version, available, failing)

\* variant: the applied ids are not looked at
validate_baseline_no_applied(version, available, applied, existing_baseline) ==
    IF ~\E i \in 1..Len(available) : available[i].version = version
    THEN Err("no_migration")
    ELSE IF existing_baseline.some /\ StrLt(version, existing_baseline.val.version)
    THEN Err("backward")
    ELSE Ok(TRUE)

\* variant: the applied check looks below the version only, with `<`
validate_baseline_lt(version, available, applied, existing_baseline) ==
    IF ~\E i \in 1..Len(available) : available[i].version = version
    THEN Err("no_migration")
    ELSE IF existing_baseline.some /\ StrLt(version, existing_baseline.val.version)
    THEN Err("backward")
    ELSE IF \E i \in 1..Len(available) :
               /\ StrLt(available[i].version, version)
               /\ available[i].id \notin AppliedIds(applied)
    THEN Err("not_applied")
    ELSE Ok(TRUE)

validate_baseline(version, available, applied, existing_baseline) ==
    IF ~\E i \in 1..Len(available) : available[i].version = version
    THEN Err("no_migration")
    ELSE IF existing_baseline.some /\ StrLt(version, existing_baseline.val.version)
    THEN Err("backward")
    ELSE IF \E i \in 1..Len(available) :
               /\ version_lte(available[i].version, version)
               /\ available[i].id \notin AppliedIds(applied)
    THEN Err("not_applied")
    ELSE Ok(TRUE)

----------------------------------------------------------------------------
(* The directory the commands work on *)

\* "00001-a.sh", "00002-b.sh", "00003-c.sh"
F_A == <<48, 48, 48, 48, 49, 45, 97, 46, 115, 104>>

F_B == <<48, 48, 48, 48, 50, 45, 98, 46, 115, 104>>

F_C == <<48, 48, 48, 48, 51, 45, 99, 46, 115, 104>>

\* migration files a user may put in the directory
MigrationFiles == {F_A, F_B, F_C}

\* "00001", "00002", "00003", and "00004", which no file carries
VersionArgs == {SubSeq(f, 1, 5) : f \in MigrationFiles} \cup {<<48, 48, 48, 48, 52>>}

\* --summary of `baseline`: absent, or "s"
SummaryArgs == {None, Some(<<115>>)}

\* remove_file fails for no path, or for one path
Failings == {{}} \cup {{f} : f \in MigrationFiles}

NoArgs == [dry_run |-> FALSE]

NoRun == [available |-> <<>>, applied |-> <<>>, baseline |-> None,
          pending |-> <<>>, i |-> 0, last_applied_version |-> None]

\* the second process before it starts
NoOther == [pc |-> "idle", pending |-> <<>>, i |-> 0, runner_log |-> <<>>,
            result |-> "none"]

\* the records of a history file, <<>> when it cannot be read
HistoryOf(exists, lines) == OkOr(read_history(exists, lines), <<>>)

History == HistoryOf(history_exists, history_lines)

\* the baseline of a baseline file, None when absent or unreadable
BaselineOf(file) == OkOr(read_baseline(file), None)

CurrentBaseline == BaselineOf(baseline_file)

Init ==
    /\ dir_exists \in BOOLEAN
    /\ files \in SUBSET MigrationFiles
    /\ (~dir_exists => files = {})
    /\ history_exists = FALSE
    /\ history_lines = <<>>
    /\ baseline_file = None
    /\ now = 0
    /\ pc = "idle"
    /\ cmd = "none"
    /\ args = NoArgs
    /\ result = "none"
    /\ run = NoRun
    /\ runner_log = <<>>
    /\ report = None
    /\ other = NoOther

\* what every command reads first: discover_migrations, read_history,
\* read_baseline, in this order; an error of a read is returned
Loaded(available, applied, baseline) ==
    IF ~applied.ok THEN Err(applied.err)
    ELSE IF ~baseline.ok THEN Err(baseline.err)
    ELSE Ok([available |-> available, applied |-> applied.val,
             baseline |-> baseline.val])

Load ==
    Loaded(discover_migrations(files),
           read_history(history_exists, history_lines),
           read_baseline(baseline_file))

----------------------------------------------------------------------------
(* A user puts a migration file in the directory (written by hand, or      *)
(* restored from a backup) while no command runs. Ids are unique within a  *)
(* directory.                                                              *)

AddFile(f) ==
    /\ pc = "idle"
    /\ dir_exists
    /\ f \notin files
    /\ \A g \in files : extract_id(g) # extract_id(f)
    /\ files' = files \cup {f}
    /\ UNCHANGED <<dir_exists, history_exists, history_lines, baseline_file,
                   now, pc, cmd, args, result, run, runner_log, report, other>>

----------------------------------------------------------------------------
(* main.rs: the process of a command ends; nothing of it is kept but the   *)
(* directory                                                               *)

Exit ==
    /\ pc = "done"
    /\ pc' = "idle"
    /\ cmd' = "none"
    /\ args' = NoArgs
    /\ result' = "none"
    /\ run' = NoRun
    /\ runner_log' = <<>>
    /\ report' = None
    /\ UNCHANGED <<dir_exists, files, history_exists, history_lines,
                   baseline_file, now, other>>

----------------------------------------------------------------------------
(* commands/status.rs *)

\* status.rs lines 45-95: what the command prints
StatusLines(baseline, pending, applied, current, target) ==
    [baseline |-> baseline, current |-> current, target |-> target,
     pending |-> Len(pending), applied |-> Len(applied),
     line |-> IF ~current.some /\ target.some /\ baseline.some
                 THEN "baseline_to_target"
              ELSE IF ~current.some /\ target.some THEN "none_to_target"
              ELSE IF current.some /\ target.some /\ current = target
                 THEN "up_to_date"
              ELSE IF current.some /\ target.some THEN "current_to_target"
              ELSE IF ~current.some /\ ~target.some /\ baseline.some
                 THEN "up_to_date_baselined"
              ELSE "nothing"]

StatusReport(st) ==
    StatusLines(st.baseline, get_pending(st.available, st.applied), st.applied,
                get_current_version(st.available, st.applied),
                get_target_version(st.available))

\* status.rs lines 15-95 on what was read
StatusReturns(ld) ==
    IF ~dir_exists
    THEN result' = "ok" /\ report' = None
    ELSE IF ~ld.ok
    THEN result' = ld.err /\ report' = None
    ELSE IF ld.val.available = <<>> /\ ~ld.val.baseline.some
    THEN result' = "ok" /\ report' = None
    ELSE result' = "ok" /\ report' = Some(StatusReport(ld.val))

\* variant: the history file is opened with `create`
Status_CreatesHistory ==
    /\ pc = "idle"
    /\ pc' = "done"
    /\ cmd' = "status"
    /\ args' = NoArgs
    /\ StatusReturns(Load)
    /\ history_exists' = (dir_exists \/ history_exists)
    /\ UNCHANGED <<dir_exists, files, history_lines, baseline_file, now, run,
                   runner_log, other>>

Status ==
    /\ pc = "idle"
    /\ pc' = "done"
    /\ cmd' = "status"
    /\ args' = NoArgs
    /\ StatusReturns(Load)
    /\ UNCHANGED <<dir_exists, files, history_exists, history_lines,
                   baseline_file, now, run, runner_log, other>>

----------------------------------------------------------------------------
(* executor.rs: the external runner. execute(migration, ctx) spawns the    *)
(* migration file and waits for it; it returns Ok with success (exit 0),   *)
(* Ok with a failure (non-zero exit), or Err when the process cannot be    *)
(* spawned.                                                                *)

ExecuteOutcomes == {"success", "failure", "spawn_error"}

----------------------------------------------------------------------------
(* commands/up.rs *)

\* up.rs lines 19-56: everything before the loop
\* up.rs lines 45-56: `pending` is computed, the run returns if it is empty
UpPending(st, pending) ==
    /\ run' = [available |-> st.available, applied |-> st.applied,
               baseline |-> st.baseline, pending |-> pending, i |-> 1,
               last_applied_version |-> None]
    /\ IF pending = <<>>
       THEN result' = "ok" /\ pc' = "done"
       ELSE result' = "running" /\ pc' = "running"

\* up.rs lines 31-45 on what was read
UpLoaded(ld) ==
    IF ~dir_exists
    THEN result' = "ok" /\ pc' = "done" /\ run' = NoRun
    ELSE IF ~ld.ok
    THEN result' = ld.err /\ pc' = "done" /\ run' = NoRun
    ELSE UpPending(ld.val, get_pending(ld.val.available, ld.val.applied))

\* variant: with --baseline and nothing pending, the baseline is put at the
\* current version
UpStart_CompactsWithoutPending ==
    /\ pc = "idle"
    /\ cmd' = "up"
    /\ \E dry_run \in BOOLEAN, create_baseline \in BOOLEAN, keep \in BOOLEAN :
          args' = [dry_run |-> dry_run, create_baseline |-> create_baseline,
                   keep |-> keep]
    /\ UpLoaded(Load)
    /\ baseline_file' =
          IF /\ args'.create_baseline /\ ~args'.dry_run /\ dir_exists /\ Load.ok
             /\ get_pending(Load.val.available, Load.val.applied) = <<>>
             /\ get_current_version(Load.val.available, Load.val.applied).some
          THEN Some(write_baseline(
                   [version |-> get_current_version(Load.val.available,
                                                    Load.val.applied).val,
                    created |-> now, summary |-> None]))
          ELSE baseline_file
    /\ UNCHANGED <<dir_exists, files, history_exists, history_lines, now,
                   runner_log, report, other>>

UpStart ==
    /\ pc = "idle"
    /\ cmd' = "up"
    /\ \E dry_run \in BOOLEAN, create_baseline \in BOOLEAN, keep \in BOOLEAN :
          args' = [dry_run |-> dry_run, create_baseline |-> create_baseline,
                   keep |-> keep]
    /\ UpLoaded(Load)
    /\ UNCHANGED <<dir_exists, files, history_exists, history_lines,
                   baseline_file, now, runner_log, report, other>>

\* variant: the baseline is put at the target version of `available`
UpAfterLoop_Target(last_applied_version, t) ==
    IF args.create_baseline /\ last_applied_version.some /\ ~args.dry_run
    THEN /\ baseline_file' = Some(write_baseline(
                [version |-> get_target_version(run.available).val,
                 created |-> t, summary |-> None]))
         /\ now' = t
         /\ files' = IF args.keep THEN files
                     ELSE delete_baselined_migrations(files,
                              get_target_version(run.available).val,
                              run.available, {}).files
         /\ result' = "ok"
         /\ report' = None
    ELSE /\ UNCHANGED <<baseline_file, files, report>>
         /\ now' = t
         /\ result' = "ok"

\* variant: the baseline is written whether or not --baseline was given
UpAfterLoop_Always(last_applied_version, t) ==
    IF last_applied_version.some /\ ~args.dry_run
    THEN \E t2 \in t..MaxNow :
         /\ baseline_file' = Some(write_baseline(
                [version |-> last_applied_version.val, created |-> t2,
                 summary |-> None]))
         /\ now' = t2
         /\ files' = IF args.keep THEN files
                     ELSE delete_baselined_migrations(files,
                              last_applied_version.val, run.available, {}).files
         /\ result' = "ok"
         /\ report' = None
    ELSE /\ UNCHANGED <<baseline_file, files, report>>
         /\ now' = t
         /\ result' = "ok"

\* up.rs lines 97-132: after the loop. t is the clock value of the last
\* reading; the clock is read again for `created`.
UpAfterLoop(last_applied_version, t) ==
    IF args.create_baseline /\ last_applied_version.some /\ ~args.dry_run
    THEN \E t2 \in t..MaxNow :
         LET version == last_applied_version.val
             new_baseline == [version |-> version, created |-> t2, summary |-> None]
         IN  /\ baseline_file' = Some(write_baseline(new_baseline))
             /\ now' = t2
             /\ IF ~args.keep
                THEN \E failing \in Failings :
                     LET del == delete_baselined_migrations(files, version,
                                                            run.available, failing)
                     IN  /\ files' = del.files
                         /\ result' = IF del.ok THEN "ok" ELSE "io_error"
                         /\ report' = del.failed
                ELSE /\ files' = files
                     /\ result' = "ok"
                     /\ report' = None
    ELSE /\ UNCHANGED <<baseline_file, files, report>>
         /\ now' = t
         /\ result' = "ok"

\* the rest of one iteration after the migration was run or skipped:
\* `continue`, and the code after the loop when this was the last one
UpContinue(m, t) ==
    /\ run' = [run EXCEPT !.last_applied_version = Some(m.version), !.i = @ + 1]
    /\ IF run.i < Len(run.pending)
       THEN /\ pc' = "running"
            /\ result' = "running"
            /\ now' = t
            /\ UNCHANGED <<baseline_file, files, report>>
       ELSE /\ pc' = "done"
            /\ UpAfterLoop(Some(m.version), t)

\* variant: the `continue` of the dry run is missing, the runner is invoked
UpDryRun_Executes(m) ==
    /\ runner_log' = Append(runner_log, [id |-> m.id, outcome |-> "success"])
    /\ UNCHANGED <<history_exists, history_lines>>
    /\ UpContinue(m, now)

\* up.rs lines 61-65: a dry run skips the migration
UpDryRun(m) ==
    /\ UNCHANGED <<history_exists, history_lines, runner_log>>
    /\ UpContinue(m, now)

\* variant: the records are written in one batch after the last migration
UpSucceeded_Batched(m) ==
    \E t \in now..MaxNow :
       /\ history_exists' = TRUE
       /\ history_lines' =
              IF run.i < Len(run.pending) THEN history_lines
              ELSE history_lines \o [j \in 1..Len(run.pending) |->
                                       HistoryRecordLine(run.pending[j].id, t)]
       /\ UpContinue(m, t)

\* variant: the record of a success is written twice
UpSucceeded_Twice(m) ==
    \E t \in now..MaxNow :
       /\ history_exists' = TRUE
       /\ history_lines' =
              append_history(append_history(history_lines, m.id, t), m.id, t)
       /\ UpContinue(m, t)

\* up.rs lines 76-80: the migration succeeded; the clock is read for
\* `applied_at` and the record is appended at once
UpSucceeded(m) ==
    \E t \in now..MaxNow :
       /\ history_exists' = TRUE
       /\ history_lines' = append_history(history_lines, m.id, t)
       /\ UpContinue(m, t)

\* variant: the error is printed but not returned, the loop goes on
UpFailed_Continues(m, outcome) ==
    /\ UNCHANGED <<history_exists, history_lines>>
    /\ UpContinue(m, now)

\* variant: the loop stays on the migration that failed and runs it again
UpFailed_Retries(m, outcome) ==
    /\ pc' = "running"
    /\ result' = "running"
    /\ UNCHANGED <<history_exists, history_lines, run, baseline_file, files,
                   now, report>>

\* up.rs line 74 (`?` on a spawn error) and lines 81-91 (non-zero exit):
\* the run returns the error
UpFailed(m, outcome) ==
    /\ pc' = "done"
    /\ result' = IF outcome = "failure" THEN "execution_error" ELSE "spawn_error"
    /\ UNCHANGED <<history_exists, history_lines, run, baseline_file, files,
                   now, report>>

\* variant: each iteration takes the first migration that is pending in the
\* directory and the history as they are now
UpStep_Rediscovers ==
    /\ pc = "running"
    /\ LET cur == get_pending(discover_migrations(files), History)
           m == IF cur # <<>> THEN cur[1] ELSE run.pending[run.i]
       IN  IF args.dry_run
           THEN UpDryRun(m)
           ELSE \E outcome \in ExecuteOutcomes :
                /\ runner_log' = Append(runner_log, [id |-> m.id, outcome |-> outcome])
                /\ IF outcome = "success"
                   THEN UpSucceeded(m)
                   ELSE UpFailed(m, outcome)
    /\ UNCHANGED <<dir_exists, cmd, args, other>>

\* up.rs lines 58-92: one iteration of the loop
UpStep ==
    /\ pc = "running"
    /\ LET m == run.pending[run.i]
       IN  IF args.dry_run
           THEN UpDryRun(m)
           ELSE \E outcome \in ExecuteOutcomes :
                /\ runner_log' = Append(runner_log, [id |-> m.id, outcome |-> outcome])
                /\ IF outcome = "success"
                   THEN UpSucceeded(m)
                   ELSE UpFailed(m, outcome)
    /\ UNCHANGED <<dir_exists, cmd, args, other>>

----------------------------------------------------------------------------
(* commands/baseline.rs *)

\* variant: validation runs after the baseline was written
BaselineReturns_AfterWrite(version, res) ==
    /\ result' = res
    /\ IF res \in {"no_migration", "backward", "not_applied"}
       THEN baseline_file' = Some(write_baseline(
                [version |-> version, created |-> now, summary |-> None]))
       ELSE baseline_file' = baseline_file
    /\ UNCHANGED <<files, now, report>>

\* baseline.rs (command) lines 26-40 and 74-76: the command returns
\* before it writes anything
BaselineReturns(version, res) ==
    /\ result' = res
    /\ UNCHANGED <<baseline_file, files, now, report>>

\* variant: --keep is not looked at
BaselineCommit_IgnoresKeep(version, summary, keep, available) ==
    \E t \in now..MaxNow :
       /\ baseline_file' = Some(write_baseline(
              [version |-> version, created |-> t, summary |-> summary]))
       /\ now' = t
       /\ files' = delete_baselined_migrations(files, version, available, {}).files
       /\ result' = "ok"
       /\ report' = None

\* baseline.rs (command) lines 78-97: write the baseline, then delete
BaselineCommit(version, summary, keep, available) ==
    \E t \in now..MaxNow :
       /\ baseline_file' = Some(write_baseline(
              [version |-> version, created |-> t, summary |-> summary]))
       /\ now' = t
       /\ IF ~keep /\ \E i \in 1..Len(available) : StrLe(available[i].version, version)
          THEN \E failing \in Failings :
               LET del == delete_baselined_migrations(files, version,
                                                      available, failing)
               IN  /\ files' = del.files
                   /\ result' = IF del.ok THEN "ok" ELSE "io_error"
                   /\ report' = del.failed
          ELSE /\ files' = files
               /\ result' = "ok"
               /\ report' = None

\* variant: --dry-run is not looked at
BaselineValidated_IgnoresDryRun(version, summary, dry_run, keep, available, v) ==
    IF ~v.ok THEN BaselineReturns(version, v.err)
    ELSE BaselineCommit(version, summary, keep, available)

\* baseline.rs (command) lines 40-76 on the result v of validate_baseline
BaselineValidated(version, summary, dry_run, keep, available, v) ==
    IF ~v.ok THEN BaselineReturns(version, v.err)
    ELSE IF dry_run THEN BaselineReturns(version, "ok")
    ELSE BaselineCommit(version, summary, keep, available)

\* baseline.rs (command) lines 26-40 on what was read
BaselineLoaded(version, summary, dry_run, keep, ld) ==
    IF ~dir_exists THEN BaselineReturns(version, "ok")
    ELSE IF ~ld.ok THEN BaselineReturns(version, ld.err)
    ELSE BaselineValidated(version, summary, dry_run, keep, ld.val.available,
             validate_baseline(version, ld.val.available, ld.val.applied,
                               ld.val.baseline))

BaselineRun(ld) ==
    \E version \in VersionArgs, summary \in SummaryArgs,
       dry_run \in BOOLEAN, keep \in BOOLEAN :
       /\ args' = [version |-> version, summary |-> summary,
                   dry_run |-> dry_run, keep |-> keep]
       /\ BaselineLoaded(version, summary, dry_run, keep, ld)

BaselineCmd ==
    /\ pc = "idle"
    /\ pc' = "done"
    /\ cmd' = "baseline"
    /\ BaselineRun(Load)
    /\ UNCHANGED <<dir_exists, history_exists, history_lines, run, runner_log,
                   other>>

----------------------------------------------------------------------------
(* commands/create.rs *)

\* --template: "bash" (extension ".sh"), or a name that is no template
TemplateArgs == {"bash", "nope"}

\* templates.rs: the extension of a template, None for an unknown name
get_template(name) ==
    IF name = "bash" THEN Some(<<46, 115, 104>>) ELSE None

\* the name argument: absent, or "x"
NameArgs == {None, Some(<<120>>)}

\* format!("{:03}", n) for n < 1000
Format03(n) == <<48 + (n \div 100), 48 + ((n \div 10) % 10), 48 + (n % 10)>>

\* create.rs line 57 takes the maximum of `m.prefix` over the discovered
\* migrations; lib.rs gives Migration no such field, so its value is any
\* number up to MaxPrefix
MaxPrefix == 0

NextPrefixes(existing) ==
    IF existing = <<>> THEN {1} ELSE {p + 1 : p \in 0..MaxPrefix}

\* variant: the check of line 64 is missing; the file is opened with
\* create and truncate
CreateFile_Truncates(filename) ==
    /\ result' = "ok"
    /\ files' = files \cup {filename}

\* create.rs lines 61-90: the file is written unless the path exists
CreateFile(filename) ==
    IF filename \in files
    THEN result' = "already_exists" /\ files' = files
    ELSE result' = "ok" /\ files' = files \cup {filename}

Create ==
    /\ pc = "idle"
    /\ pc' = "done"
    /\ cmd' = "create"
    /\ \E name \in NameArgs, template_name \in TemplateArgs,
          should_list_templates \in BOOLEAN :
       /\ args' = [name |-> name, template_name |-> template_name,
                   should_list_templates |-> should_list_templates,
                   dry_run |-> FALSE]
       /\ IF should_list_templates
          THEN result' = "ok" /\ UNCHANGED <<dir_exists, files>>
          ELSE IF ~name.some
          THEN result' = "name_required" /\ UNCHANGED <<dir_exists, files>>
          ELSE IF ~get_template(template_name).some
          THEN result' = "unknown_template" /\ UNCHANGED <<dir_exists, files>>
          ELSE \E next_prefix \in NextPrefixes(discover_migrations(files)) :
               LET filename == Format03(next_prefix) \o <<45>> \o name.val
                               \o get_template(template_name).val
               IN  /\ dir_exists' = TRUE
                   /\ CreateFile(filename)
    /\ UNCHANGED <<history_exists, history_lines, baseline_file, now, run,
                   runner_log, report, other>>

----------------------------------------------------------------------------

Next ==
    \/ \E f \in MigrationFiles : AddFile(f)
    \/ Exit
    \/ Status
    \/ UpStart
    \/ UpStep
    \/ BaselineCmd
    \/ Create

Spec == Init /\ [][Next]_vars

\* commands one after the other on a directory nobody else edits
NextSeq ==
    \/ Exit
    \/ Status
    \/ UpStart
    \/ UpStep
    \/ BaselineCmd
    \/ Create

SpecSeq == Init /\ [][NextSeq]_vars

----------------------------------------------------------------------------
(* Commands one after the other on a directory whose history file got a    *)
(* broken last line: what an append_history interrupted inside its writeln *)
(* (state.rs line 60) leaves of the record of the first migration, either  *)
(* its first character or everything but the last character.               *)

CorruptLines ==
    {SubSeq(HistoryRecordLine(extract_id(F_A), 0), 1, 1),
     SubSeq(HistoryRecordLine(extract_id(F_A), 0), 1,
            Len(HistoryRecordLine(extract_id(F_A), 0)) - 1)}

CorruptHistory ==
    /\ pc = "idle"
    /\ dir_exists
    /\ \A k \in 1..Len(history_lines) : history_lines[k] \notin CorruptLines
    /\ history_exists' = TRUE
    /\ \E l \in CorruptLines : history_lines' = Append(history_lines, l)
    /\ UNCHANGED <<dir_exists, files, baseline_file, now, pc, cmd, args, result,
                   run, runner_log, report, other>>

NextCorrupt ==
    \/ CorruptHistory
    \/ Exit
    \/ Status
    \/ UpStart
    \/ UpStep
    \/ BaselineCmd
    \/ Create

SpecCorrupt == Init /\ [][NextCorrupt]_vars

----------------------------------------------------------------------------
(* Two `up` processes on one directory, and a user who edits the directory *)
(* while they run. Nothing in the code takes a lock: each process reads    *)
(* the directory and the history once (up.rs lines 39-45), then appends to *)
(* the history after each migration (up.rs line 79). The second process is *)
(* `migrate up` without flags.                                             *)

\* a file appears in the directory while `up` is inside its loop
AddFileRunning(f) ==
    /\ pc = "running"
    /\ dir_exists
    /\ f \notin files
    /\ \A g \in files : extract_id(g) # extract_id(f)
    /\ files' = files \cup {f}
    /\ UNCHANGED <<dir_exists, history_exists, history_lines, baseline_file,
                   now, pc, cmd, args, result, run, runner_log, report, other>>

\* up.rs lines 45-56 in the second process
OtherPending(pending) ==
    other' = [pc |-> IF pending = <<>> THEN "done" ELSE "running",
              pending |-> pending, i |-> 1, runner_log |-> <<>>,
              result |-> IF pending = <<>> THEN "ok" ELSE "running"]

\* up.rs lines 31-45 in the second process
OtherLoaded(ld) ==
    IF ~dir_exists
    THEN other' = [NoOther EXCEPT !.pc = "done", !.result = "ok"]
    ELSE IF ~ld.ok
    THEN other' = [NoOther EXCEPT !.pc = "done", !.result = ld.err]
    ELSE OtherPending(get_pending(ld.val.available, ld.val.applied))

\* up.rs lines 19-56 in the second process
OtherUpStart ==
    /\ other.pc = "idle"
    /\ OtherLoaded(Load)
    /\ UNCHANGED <<dir_exists, files, history_exists, history_lines,
                   baseline_file, now, pc, cmd, args, result, run, runner_log,
                   report>>

\* up.rs lines 76-80 and 93-130 in the second process: the record is
\* appended, the loop goes on or the run returns
OtherSucceeded(m, t) ==
    /\ history_exists' = TRUE
    /\ history_lines' = append_history(history_lines, m.id, t)
    /\ now' = t
    /\ other' = [other EXCEPT
                    !.runner_log = Append(@, [id |-> m.id, outcome |-> "success"]),
                    !.i = @ + 1,
                    !.pc = IF other.i < Len(other.pending) THEN "running"
                           ELSE "done",
                    !.result = IF other.i < Len(other.pending) THEN "running"
                               ELSE "ok"]

\* up.rs line 74 and lines 81-91 in the second process
OtherFailed(m, outcome) ==
    /\ other' = [other EXCEPT
                    !.runner_log = Append(@, [id |-> m.id, outcome |-> outcome]),
                    !.pc = "done",
                    !.result = IF outcome = "failure" THEN "execution_error"
                               ELSE "spawn_error"]
    /\ UNCHANGED <<history_exists, history_lines, now>>

\* up.rs lines 58-92 in the second process: one iteration of the loop
OtherUpStep ==
    /\ other.pc = "running"
    /\ \E outcome \in ExecuteOutcomes :
          IF outcome = "success"
          THEN \E t \in now..MaxNow :
                  OtherSucceeded(other.pending[other.i], t)
          ELSE OtherFailed(other.pending[other.i], outcome)
    /\ UNCHANGED <<dir_exists, files, baseline_file, pc, cmd, args, result,
                   run, runner_log, report>>

\* each of the two processes runs once
NextConc ==
    \/ \E f \in MigrationFiles : AddFileRunning(f)
    \/ UpStart
    \/ UpStep
    \/ OtherUpStart
    \/ OtherUpStep

SpecConc == Init /\ [][NextConc]_vars

----------------------------------------------------------------------------
(* Pure functions, applied to inputs of bounded sets: the inputs are the    *)
(* arguments of a process that has no directory, the value is its result.   *)

FunctionInit(name, inputs) ==
    /\ dir_exists = FALSE
    /\ files = {}
    /\ history_exists = FALSE
    /\ history_lines = <<>>
    /\ baseline_file = None
    /\ now = 0
    /\ pc = "idle"
    /\ cmd = name
    /\ args \in inputs
    /\ result = "none"
    /\ run = NoRun
    /\ runner_log = <<>>
    /\ report = None
    /\ other = NoOther

FunctionReturns(name, value) ==
    /\ pc = "idle"
    /\ cmd = name
    /\ pc' = "done"
    /\ result' = value
    /\ UNCHANGED <<dir_exists, files, history_exists, history_lines,
                   baseline_file, now, cmd, args, run, runner_log, report,
                   other>>

\* bounds of the inputs of encode_base36
MaxN == 1300

MaxWidth == 3

Base36Init ==
    FunctionInit("encode_base36", [n : 0..MaxN, width : 0..MaxWidth])

\* encode_base36(n, width), and decode_base36 of the code
Base36Apply ==
    FunctionReturns("encode_base36",
        [encoded |-> encode_base36(args.n, args.width),
         decoded |-> decode_base36(encode_base36(args.n, args.width))])

SpecBase36 == Base36Init /\ [][Base36Apply]_vars

\* bound of the days since the epoch
MaxDay == 36

\* minutes of the day around the changes of slot 0/1/2, 35/36 and 143/0
MinutesOfDay == {0, 9, 10, 11, 20, 359, 360, 1430, 1439}

Timestamps == [days : 0..MaxDay, minutes : MinutesOfDay]

VersionInit ==
    FunctionInit("generate_version", [t1 : Timestamps, t2 : Timestamps])

\* generate_version at two times
VersionApply ==
    FunctionReturns("generate_version",
        [v1 |-> generate_version(args.t1), v2 |-> generate_version(args.t2)])

SpecVersion == VersionInit /\ [][VersionApply]_vars

\* the sequences of at most len elements of chars
RECURSIVE Texts(_, _)
Texts(chars, len) ==
    IF len = 0 THEN {<<>>}
    ELSE Texts(chars, len - 1)
         \cup {<<c>> \o t : c \in chars, t \in Texts(chars, len - 1)}

\* bound of the number of lines of a history file
MaxHistoryLines == 3

\* lines of a history file: "a T0", "b T1", " a T0 " (a record between
\* blanks), "" (empty), "a" (one token), "a T0 x" (three tokens), "a T"
\* (what an interrupted append leaves of a record)
HistoryFileLines ==
    {<<97, 32, 84, 48>>, <<98, 32, 84, 49>>, <<32, 97, 32, 84, 48, 32>>,
     <<>>, <<97>>, <<97, 32, 84, 48, 32, 120>>, <<97, 32, 84>>}

HistoryFileInit ==
    FunctionInit("read_history",
                 [lines : Texts(HistoryFileLines, MaxHistoryLines)])

\* read_history on a file that exists
HistoryFileApply ==
    FunctionReturns("read_history", read_history(TRUE, args.lines))

SpecHistoryFile == HistoryFileInit /\ [][HistoryFileApply]_vars

\* bound of the number of lines of a baseline file
MaxBaselineLines == 4

\* lines of a baseline file: "version: 00001", "created: T0", "summary: |",
\* "  s", " s", "   s" (indents of two, one and three spaces), "" (empty)
BaselineFileLines ==
    {KEY_VERSION \o <<32>> \o SubSeq(F_A, 1, 5),
     KEY_CREATED \o <<32>> \o to_rfc3339(0),
     KEY_SUMMARY \o <<32, 124>>,
     <<32, 32, 115>>, <<32, 115>>, <<32, 32, 32, 115>>, <<>>}

ParseBaselineInit ==
    FunctionInit("parse_baseline",
                 [lines : Texts(BaselineFileLines, MaxBaselineLines)])

ParseBaselineApply ==
    FunctionReturns("parse_baseline", parse_baseline(args.lines))

SpecParseBaseline == ParseBaselineInit /\ [][ParseBaselineApply]_vars

\* bound of the number of entries the directory lists
MaxListing == 4

\* "00001-b.sh", "0000a-x", "A0001-x", ".history"
F_A2 == <<48, 48, 48, 48, 49, 45, 98, 46, 115, 104>>

F_LETTER == <<48, 48, 48, 48, 97, 45, 120>>

F_UPPER == <<65, 48, 48, 48, 49, 45, 120>>

F_HISTORY == <<46, 104, 105, 115, 116, 111, 114, 121>>

\* names of directory entries: two of one version, a version with a
\* letter, names the glob pattern does not match, and "00003-" (nothing
\* after the dash), "0001-x" and "000001-x" (a prefix of 4 and of 6
\* characters), "00004-d" (a directory), ".baseline"
EntryNames ==
    {F_A, F_B, F_A2, F_LETTER, F_UPPER, F_HISTORY,
     <<48, 48, 48, 48, 51, 45>>,
     <<48, 48, 48, 49, 45, 120>>,
     <<48, 48, 48, 48, 48, 49, 45, 120>>,
     <<48, 48, 48, 48, 52, 45, 100>>,
     <<46, 98, 97, 115, 101, 108, 105, 110, 101>>}

\* the entries that are directories: Path::is_file is false for them
DirNames == {<<48, 48, 48, 48, 52, 45, 100>>}

\* the listings of a directory: its entries in any order
RECURSIVE Listings(_, _)
Listings(names, len) ==
    IF len = 0 THEN {<<>>}
    ELSE Listings(names, len - 1)
         \cup UNION {{Append(l, n) : n \in names \ {l[i] : i \in 1..Len(l)}} :
                     l \in {x \in Listings(names, len - 1) : Len(x) = len - 1}}

DiscoverInit ==
    FunctionInit("discover_migrations",
                 [listing : Listings(EntryNames, MaxListing)])

\* loader.rs lines 12-36 on a listing: the entries the pattern matches, in
\* the order of the listing, made migrations and sorted
DiscoverApply ==
    FunctionReturns("discover_migrations",
        SortByVersion(ToMigrations(SelectSeq(args.listing,
            LAMBDA n : GlobMatches(n) /\ n \notin DirNames))))

SpecDiscover == DiscoverInit /\ [][DiscoverApply]_vars

\* bounds of the baselines written: length of the summary, `created`
MaxSummaryLen == 3

MaxCreated == 1

\* the characters of a summary: s, space, line feed
SummaryChars == {115, 32, 10}

Baselines ==
    [version : {SubSeq(F_A, 1, 5)},
     created : 0..MaxCreated,
     summary : {None} \cup {Some(t) : t \in Texts(SummaryChars, MaxSummaryLen)}]

BaselineFileInit == FunctionInit("write_baseline", Baselines)

\* write_baseline(b), then read_baseline of the file
BaselineFileApply ==
    FunctionReturns("write_baseline", read_baseline(Some(write_baseline(args))))

SpecBaselineFile == BaselineFileInit /\ [][BaselineFileApply]_vars

----------------------------------------------------------------------------
(* Properties *)

IsPrefix(a, b) == Len(a) <= Len(b) /\ SubSeq(b, 1, Len(a)) = a

IdsOf(ms) == [i \in 1..Len(ms) |-> ms[i].id]

\* the ids the runner reported success for, in the order of invocation
SuccessIds == IdsOf(SelectSeq(runner_log, LAMBDA e : e.outcome = "success"))

\* an `up` process that got as far as computing `pending`
InUp == cmd = "up" /\ run.i >= 1

\* C1: fail-fast. When the runner does not succeed for the k-th pending
\* migration of a run, it is the last invocation of the run, the run has
\* returned an error, and the history holds, after the records read at the
\* start, the ids of pending 1..k-1 only: neither the failing id nor a later
\* one.
C1_FailFast ==
    \A k \in 1..Len(runner_log) :
        runner_log[k].outcome # "success" =>
            LET appended == SubSeq(IdsOf(History), Len(run.applied) + 1,
                                   Len(History))
            IN  /\ k = Len(runner_log)
                /\ \A j \in 1..k : runner_log[j].id = run.pending[j].id
                /\ pc = "done"
                /\ result \in {"execution_error", "spawn_error"}
                /\ IsPrefix(run.applied, History)
                /\ appended = IdsOf(SubSeq(run.pending, 1, k - 1))
                /\ \A j \in k..Len(run.pending) :
                       \A n \in 1..Len(appended) : appended[n] # run.pending[j].id

C1_Witness ==
    /\ pc = "done" /\ cmd = "up" /\ result = "execution_error"
    /\ Len(run.pending) = 3
    /\ Len(runner_log) = 2
    /\ runner_log[1].outcome = "success"
    /\ runner_log[2].outcome = "failure"

\* C2: incremental durability. At every point of a non-dry run, the history
\* file holds the records read at the start followed by one record for each
\* migration the runner has succeeded for so far, in order, and these are the
\* first pending migrations; this still holds when the run has failed.
C2_IncrementalDurability ==
    (InUp /\ ~args.dry_run) =>
        LET h == History
        IN  /\ IdsOf(h) = IdsOf(run.applied) \o SuccessIds
            /\ SuccessIds = IdsOf(SubSeq(run.pending, 1, Len(SuccessIds)))
            /\ (pc = "running" => Len(SuccessIds) = run.i - 1)
            /\ IsPrefix(run.applied, h)

C2_Witness ==
    /\ pc = "done" /\ cmd = "up" /\ result = "execution_error"
    /\ Len(runner_log) = 3
    /\ runner_log[3].outcome = "failure"
    /\ IdsOf(History) = IdsOf(SubSeq(run.pending, 1, 2))

\* C3: the history is append-only: every step of every command leaves the
\* records it had as a prefix of the records it has.
C3_HistoryAppendOnly ==
    [][\/ UNCHANGED <<history_exists, history_lines>>
       \/ IsPrefix(History, HistoryOf(history_exists', history_lines'))]_vars

\* a compaction has deleted the files of the recorded migrations
C3_Witness ==
    /\ pc = "done" /\ cmd = "baseline" /\ result = "ok"
    /\ ~args.keep /\ ~args.dry_run
    /\ Len(History) = 2
    /\ \A f \in files : extract_id(f) \notin AppliedIds(History)

\* C4: the pending sequence of a run is exactly the available migrations
\* whose id is in no applied record and whose version is above the baseline,
\* if there is one, in the order of `available`.
C4_PendingExcludesBaselined ==
    InUp =>
        run.pending = SelectSeq(run.available, LAMBDA m :
            /\ m.id \notin AppliedIds(run.applied)
            /\ (~run.baseline.some \/ StrLt(run.baseline.val.version, m.version)))

\* C5: `up` never invokes the runner for, nor appends a record for, a
\* migration whose version is at or below the baseline read at the start of
\* the run.
C5_BaselineSafetyNet ==
    (InUp /\ run.baseline.some) =>
        \A j \in 1..Len(run.available) :
            StrLe(run.available[j].version, run.baseline.val.version) =>
                /\ \A k \in 1..Len(runner_log) :
                       runner_log[k].id # run.available[j].id
                /\ LET h == History
                   IN  \A n \in (Len(run.applied) + 1)..Len(h) :
                           h[n].id # run.available[j].id

\* C6: idempotence of `up`. After a non-dry `up` returned success nothing is
\* pending in the directory it leaves, and an `up` started on a directory
\* with nothing pending returns success at once, without an invocation of
\* the runner and with the history file as it was.
C6_UpIdempotent ==
    /\ []((cmd = "up" /\ pc = "done" /\ result = "ok" /\ ~args.dry_run) =>
              get_pending(discover_migrations(files), History) = <<>>)
    /\ [][(pc = "idle" /\ cmd' = "up" /\ dir_exists
              /\ get_pending(discover_migrations(files), History) = <<>>) =>
              /\ pc' = "done" /\ result' = "ok"
              /\ runner_log' = <<>>
              /\ UNCHANGED <<history_exists, history_lines>>]_vars

\* a second `up` after everything was applied
C6_Witness ==
    /\ cmd = "up" /\ pc = "done" /\ result = "ok" /\ ~args.dry_run
    /\ run.i >= 1 /\ run.pending = <<>>
    /\ Len(run.available) = 3 /\ Len(run.applied) = 3
    /\ runner_log = <<>>

\* C7: dry run. No step of an `up --dry-run` invokes the runner or changes
\* the history file (a missing file stays missing), and the run returns
\* success after it visited every pending migration.
C7_DryRun ==
    /\ [][(cmd' = "up" /\ args'.dry_run) =>
              /\ runner_log' = <<>>
              /\ UNCHANGED <<history_exists, history_lines>>]_vars
    /\ []((cmd = "up" /\ args.dry_run /\ pc = "done" /\ run.i >= 1) =>
              /\ result = "ok"
              /\ run.i = Len(run.pending) + 1)

C7_Witness ==
    /\ cmd = "up" /\ args.dry_run /\ pc = "done" /\ result = "ok"
    /\ Len(run.pending) = 3 /\ run.i = 4
    /\ ~history_exists

\* C8: the version of the baseline file never decreases: a step that
\* replaces a baseline leaves one whose version is not smaller.
C8_BaselineMonotonic ==
    [][(CurrentBaseline.some /\ baseline_file' # baseline_file) =>
           /\ BaselineOf(baseline_file').some
           /\ StrLe(CurrentBaseline.val.version,
                    BaselineOf(baseline_file').val.version)]_vars

\* the three conditions of a valid baseline target: ms the available
\* migrations, ids the applied ids, baseline the existing baseline
ValidateConditions(version, ms, ids, baseline) ==
    [a |-> \E m \in ms : m.version = version,
     b |-> ~(baseline.some /\ StrLt(version, baseline.val.version)),
     c |-> \A m \in ms : StrLe(m.version, version) => m.id \in ids]

\* the result res of a `baseline` command agrees with the conditions k
ResultAgrees(k, res) ==
    /\ (res \in {"ok", "io_error"}) <=> (k.a /\ k.b /\ k.c)
    /\ (res = "no_migration") => ~k.a
    /\ (res = "backward") => ~k.b
    /\ (res = "not_applied") => ~k.c
    /\ res \in {"ok", "io_error", "no_migration", "backward", "not_applied"}

\* ld is what the command read, res how it returned
ValidateAgrees(version, ld, res) ==
    ld.ok => ResultAgrees(
                 ValidateConditions(version,
                     {ld.val.available[i] : i \in DOMAIN ld.val.available},
                     {ld.val.applied[n].id : n \in DOMAIN ld.val.applied},
                     ld.val.baseline),
                 res)

\* C9: validate returns ok exactly when (a) an available migration has the
\* target version, (b) no existing baseline has a greater version and (c)
\* every available migration at or below the target has its id in the
\* applied records; each error is returned only when its condition fails.
C9_ValidateCorrect ==
    [][(pc = "idle" /\ cmd' = "baseline" /\ dir_exists) =>
           ValidateAgrees(args'.version, Load, result')]_vars

C9_Witness ==
    /\ cmd = "baseline" /\ pc = "done" /\ result = "backward"
    /\ Len(History) = 2

\* C10: a `baseline` that fails validation leaves the baseline file, the
\* migration files and the history file as they were.
C10_ValidationNoSideEffects ==
    [][(pc = "idle" /\ cmd' = "baseline"
           /\ result' \in {"no_migration", "backward", "not_applied"}) =>
           UNCHANGED <<dir_exists, files, history_exists, history_lines,
                       baseline_file>>]_vars

C10_Witness ==
    /\ cmd = "baseline" /\ pc = "done" /\ result = "not_applied"
    /\ baseline_file.some
    /\ history_exists
    /\ ~args.dry_run

\* the migration files on disk at or below the version of baseline b have
\* their ids among the ids of the records h
Covered(available, h, b) ==
    \A i \in DOMAIN available :
        StrLe(available[i].version, b.version) =>
            available[i].id \in AppliedIds(h)

\* C11: baseline coverage. In every state reached by commands run one after
\* the other, with no edit of the directory from outside, when a baseline
\* exists every migration file on disk whose version is at or below the
\* version of the baseline has its id in a record of the history.
C11_BaselineCoverage ==
    CurrentBaseline.some =>
        Covered(discover_migrations(files), History, CurrentBaseline.val)

\* a baseline above files that were kept
C11_Witness ==
    /\ pc = "idle"
    /\ CurrentBaseline.some
    /\ CurrentBaseline.val.version = SubSeq(F_B, 1, 5)
    /\ files = MigrationFiles
    /\ Len(History) = 2

\* baseline b holds version v and summary; of the migrations of `available`
\* exactly those above v are in the directory fs
CommitDone(v, summary, available, fs, b) ==
    /\ b.some
    /\ b.val.version = v
    /\ b.val.summary = summary
    /\ \A i \in DOMAIN available :
           (available[i].file_path \in fs) <=> ~StrLe(available[i].version, v)

\* C12: commit effect. After `baseline v` went through on an existing
\* directory and returned success, without --dry-run and without --keep,
\* the baseline file holds version v and the summary given, no migration
\* file that was available with a version at or below v is on disk, and
\* every available one above v still is.
C12_CommitEffect ==
    [][(pc = "idle" /\ cmd' = "baseline" /\ dir_exists /\ result' = "ok"
           /\ ~args'.dry_run /\ ~args'.keep) =>
           CommitDone(args'.version, args'.summary, discover_migrations(files),
                      files', BaselineOf(baseline_file'))]_vars

C12_Witness ==
    /\ cmd = "baseline" /\ pc = "done" /\ result = "ok"
    /\ ~args.dry_run /\ ~args.keep /\ args.summary.some
    /\ args.version = SubSeq(F_B, 1, 5)
    /\ files = {F_C}
    /\ CurrentBaseline.some

\* the version `up --baseline` compacts at: the one of the last pending
\* migration of the run
LastPendingVersion == run.pending[Len(run.pending)].version

\* C13: --keep. No step of a `baseline` or `up` command given --keep
\* changes the set of files of the directory, and the command still writes
\* the baseline: `baseline v` at v, `up --baseline` at the version of the
\* last migration of the run.
C13_KeepDeletesNothing ==
    /\ [][(cmd' \in {"baseline", "up"} /\ args'.keep) => files' = files]_vars
    /\ [][(pc = "idle" /\ cmd' = "baseline" /\ dir_exists /\ result' = "ok"
              /\ ~args'.dry_run /\ args'.keep) =>
              /\ BaselineOf(baseline_file').some
              /\ BaselineOf(baseline_file').val.version = args'.version]_vars
    /\ [][(pc = "running" /\ pc' = "done" /\ result' = "ok"
              /\ args.create_baseline /\ ~args.dry_run /\ args.keep) =>
              /\ BaselineOf(baseline_file').some
              /\ BaselineOf(baseline_file').val.version = LastPendingVersion]_vars

C13_Witness ==
    /\ cmd = "baseline" /\ pc = "done" /\ result = "ok"
    /\ ~args.dry_run /\ args.keep
    /\ args.version = SubSeq(F_C, 1, 5)
    /\ files = MigrationFiles
    /\ CurrentBaseline.some
    /\ CurrentBaseline.val.version = SubSeq(F_C, 1, 5)

\* fs2 is fs without the files removed before the removal of `failed`
\* failed: of the files to delete, the ones before `failed` in the order of
\* `available` are gone, `failed` and everything else is still there
PartialDelete(v, available, fs, fs2, failed) ==
    \E k \in DOMAIN available :
        /\ available[k].file_path = failed
        /\ StrLe(available[k].version, v)
        /\ failed \in fs2
        /\ fs2 = fs \ {available[j].file_path : j \in
                          {i \in 1..(k - 1) : StrLe(available[i].version, v)}}

\* C14: partial compaction failure. When a command returns an I/O error
\* from the deletion, the new baseline is in the baseline file, the files to
\* delete that come before the one the error names are gone, and the named
\* one and every later one are still on disk.
C14_PartialCompaction ==
    [][(pc # "done" /\ pc' = "done" /\ result' = "io_error") =>
           /\ BaselineOf(baseline_file').some
           /\ BaselineOf(baseline_file').val.version =
                  (IF cmd' = "baseline" THEN args'.version ELSE LastPendingVersion)
           /\ report'.some
           /\ PartialDelete(BaselineOf(baseline_file').val.version,
                            discover_migrations(files), files, files',
                            report'.val)]_vars

C14_Witness ==
    /\ cmd = "baseline" /\ pc = "done" /\ result = "io_error"
    /\ args.version = SubSeq(F_C, 1, 5)
    /\ files = {F_B, F_C}
    /\ report = Some(F_B)
    /\ CurrentBaseline.some
    /\ CurrentBaseline.val.version = SubSeq(F_C, 1, 5)

\* the version of the migration the runner was invoked for last, in log
LastRunVersion(available, log) ==
    (CHOOSE m \in {available[i] : i \in DOMAIN available} :
        m.id = log[Len(log)].id).version

\* C15: `up --baseline`. The step that completes a non-dry run with success
\* after at least one migration leaves a baseline whose version is the one
\* of the last migration the run applied and, without --keep, no available
\* migration file at or below it on disk; no step of a run that fails at a
\* migration, and no step before the last one, changes the baseline file or
\* the migration files.
C15_UpBaseline ==
    /\ [][(pc = "running" /\ pc' = "done" /\ result' = "ok"
              /\ args.create_baseline /\ ~args.dry_run) =>
              /\ runner_log'[Len(runner_log')].outcome = "success"
              /\ BaselineOf(baseline_file').some
              /\ BaselineOf(baseline_file').val.version
                     = LastRunVersion(run.available, runner_log')
              /\ ~args.keep =>
                     \A i \in DOMAIN run.available :
                         StrLe(run.available[i].version,
                               LastRunVersion(run.available, runner_log'))
                             => run.available[i].file_path \notin files']_vars
    /\ [][(cmd' = "up" /\ (pc' = "running"
                             \/ result' \in {"execution_error", "spawn_error"})) =>
              UNCHANGED <<baseline_file, files>>]_vars

\* b was applied before; a and c are applied by the run, which compacts at c
C15_Witness ==
    /\ cmd = "up" /\ pc = "done" /\ result = "ok"
    /\ args.create_baseline /\ ~args.dry_run /\ ~args.keep
    /\ Len(run.available) = 3 /\ Len(run.applied) = 1
    /\ Len(runner_log) = 2
    /\ CurrentBaseline.some
    /\ CurrentBaseline.val.version = SubSeq(F_C, 1, 5)
    /\ files = {}

\* r is the version of the last element of `available` whose id is in ids,
\* None when no element has its id in ids
IsLastMatch(r, available, ids) ==
    IF \E i \in DOMAIN available : available[i].id \in ids
    THEN /\ r.some
         /\ \E i \in DOMAIN available :
                /\ available[i].id \in ids
                /\ available[i].version = r.val
                /\ \A j \in (i + 1)..Len(available) : available[j].id \notin ids
    ELSE r = None

\* the current version of a directory and its history, and the same with
\* the records of migrations that have no file left out
CurrentVersionAgrees(available, applied) ==
    /\ \A i \in 1..(Len(available) - 1) :
           StrLe(available[i].version, available[i + 1].version)
    /\ IsLastMatch(get_current_version(available, applied), available,
                   AppliedIds(applied))
    /\ get_current_version(available, applied)
           = get_current_version(available,
                 SelectSeq(applied, LAMBDA r :
                     \E i \in DOMAIN available : available[i].id = r.id))

\* C16: the current version of the discovered migrations (ascending) and
\* the records of the history is the version of the last discovered
\* migration whose id is in a record, None when there is none; it is the
\* version of a discovered migration, and the records of migrations with no
\* file do not change it.
C16_CurrentVersion ==
    CurrentVersionAgrees(discover_migrations(files), History)

\* a, b and c are applied, the file of c is gone: the current version is b's
C16_Witness ==
    /\ pc = "idle"
    /\ files = {F_A, F_B}
    /\ Len(History) = 3
    /\ get_current_version(discover_migrations(files), History)
           = Some(SubSeq(F_B, 1, 5))

\* what `status` printed for a directory with the migrations `available`,
\* no baseline and no record: no current version, the highest available
\* version as the target, everything pending
FreshStatus(rep, available) ==
    /\ rep.baseline = None
    /\ rep.current = None
    /\ rep.target.some
    /\ \E i \in DOMAIN available : available[i].version = rep.target.val
    /\ \A i \in DOMAIN available : StrLe(available[i].version, rep.target.val)
    /\ rep.pending = Len(available)
    /\ rep.applied = 0
    /\ rep.line = "none_to_target"
    /\ get_pending(available, <<>>) = available

\* the directory after `up` applied all of run_available: `available` are
\* the migrations on disk, h the records
AllApplied(available, h, run_available) ==
    /\ get_current_version(available, h) = get_target_version(available)
    /\ get_pending(available, h) = <<>>
    /\ IdsOf(h) = IdsOf(run_available)
    /\ available = run_available =>
           get_current_version(available, h)
               = Some(run_available[Len(run_available)].version)

\* C17: on a directory with migrations, no baseline and an empty history
\* `status` reports no current version, the highest available version as
\* the target and every available migration pending; after a non-dry `up`
\* on such a directory returned success the current version equals the
\* target version, nothing is pending and the history has exactly one
\* record per migration.
C17_StatusUpScenario ==
    /\ (cmd = "status" /\ pc = "done" /\ report.some
           /\ ~baseline_file.some /\ History = <<>>) =>
           FreshStatus(report.val, discover_migrations(files))
    /\ (cmd = "up" /\ pc = "done" /\ result = "ok" /\ ~args.dry_run
           /\ run.i >= 1 /\ run.pending # <<>>
           /\ run.applied = <<>> /\ ~run.baseline.some) =>
           AllApplied(discover_migrations(files), History, run.available)

C17_Witness ==
    /\ cmd = "up" /\ pc = "done" /\ result = "ok" /\ ~args.dry_run
    /\ ~args.create_baseline
    /\ run.applied = <<>> /\ ~run.baseline.some
    /\ Len(run.pending) = 3
    /\ Len(History) = 3
    /\ files = MigrationFiles

\* C18: `status` is read-only: its step leaves the directory, the migration
\* files, the history file and the baseline file as they were; a missing
\* directory or history file stays missing.
C18_StatusReadOnly ==
    [][cmd' = "status" =>
           UNCHANGED <<dir_exists, files, history_exists, history_lines,
                       baseline_file>>]_vars

\* `status` on a directory with files and no history file
C18_Witness ==
    /\ cmd = "status" /\ pc = "done" /\ result = "ok"
    /\ report.some
    /\ files = MigrationFiles
    /\ ~history_exists

\* f is a name `create` generates for the arguments a: a prefix, a dash,
\* the name and the extension of the template
IsGeneratedName(f, a, prefix_len) ==
    /\ Len(f) > prefix_len
    /\ SubSeq(f, prefix_len + 1, Len(f))
           = <<45>> \o a.name.val \o get_template(a.template_name).val

\* C19: `create` never overwrites a file. A `create` that returns success
\* for a name and a known template has put one new file in the directory
\* and left every other file; one that finds the name it generates in the
\* directory returns the "already exists" error and leaves the files, the
\* history and the baseline as they were.
C19_CreateNoOverwrite ==
    [][(pc = "idle" /\ cmd' = "create") =>
           /\ (result' = "ok" /\ ~args'.should_list_templates) =>
                  \E f \in files' \ files :
                      /\ files' = files \cup {f}
                      /\ IsGeneratedName(f, args', 3)
           /\ result' = "already_exists" =>
                  /\ \E f \in files : IsGeneratedName(f, args', 3)
                  /\ UNCHANGED <<files, history_exists, history_lines,
                                 baseline_file>>
           /\ files \subseteq files']_vars

C19_Witness ==
    /\ cmd = "create" /\ pc = "done" /\ result = "already_exists"
    /\ F_A \in files
    /\ \E f \in files : IsGeneratedName(f, args, 3)

\* C20: the file a successful `create <name>` made has a name of five
\* characters of version code, a dash, the name and the extension; the
\* discovery returns it and it is pending.
C20_CreatedIsPending ==
    (cmd = "create" /\ pc = "done" /\ result = "ok"
        /\ ~args.should_list_templates) =>
        \E i \in DOMAIN get_pending(discover_migrations(files), History) :
            IsGeneratedName(
                get_pending(discover_migrations(files), History)[i].file_path,
                args, 5)

RECURSIVE Pow36(_)
Pow36(w) == IF w = 0 THEN 1 ELSE 36 * Pow36(w - 1)

\* C21: base-36 round trip. For every width w and every n below 36^w,
\* decode_base36(encode_base36(n, w)) is n.
C21_Base36RoundTrip ==
    (cmd = "encode_base36" /\ pc = "done" /\ args.n < Pow36(args.width)) =>
        result.decoded = Some(args.n)

\* 1295 is "zz"
C21_Witness ==
    /\ cmd = "encode_base36" /\ pc = "done"
    /\ args.n = 1295 /\ args.width = 2
    /\ result.encoded = <<122, 122>>
    /\ result.decoded = Some(1295)

\* C29: encode_base36(n, width) is a string of exactly `width` characters
\* of [0-9a-z]: padded with zeros on the left when n has fewer digits, the
\* low-order `width` digits of n (n mod 36^width) when it has more.
C29_EncodeWidth ==
    (cmd = "encode_base36" /\ pc = "done") =>
        /\ Len(result.encoded) = args.width
        /\ \A i \in DOMAIN result.encoded :
               \E d \in 1..36 : BASE36_CHARS[d] = result.encoded[i]
        /\ result.decoded = Some(args.n % Pow36(args.width))

\* whole minutes from t1 to t2
MinutesBetween(t1, t2) == (t2.days - t1.days) * 1440 + t2.minutes - t1.minutes

\* v is the 3-character code of the days of t followed by the 2-character
\* code of its 10-minute slot
IsVersionOf(v, t) ==
    /\ Len(v) = 5
    /\ decode_base36(SubSeq(v, 1, 3)) = Some(t.days)
    /\ decode_base36(SubSeq(v, 4, 5)) = Some(t.minutes \div 10)

\* C22: version codes are chronological. For two times t1, t2 with t2 ten
\* minutes or more after t1 (days since the epoch below 36^3) the code of
\* t1 is below the code of t2 as a string, each code being the 3-character
\* code of the days followed by the 2-character code of the 10-minute slot.
C22_VersionChronological ==
    (cmd = "generate_version" /\ pc = "done") =>
        /\ IsVersionOf(result.v1, args.t1)
        /\ IsVersionOf(result.v2, args.t2)
        /\ MinutesBetween(args.t1, args.t2) >= 10 => StrLt(result.v1, result.v2)

\* ten minutes across midnight and across the day code 00z / 010
C22_Witness ==
    /\ cmd = "generate_version" /\ pc = "done"
    /\ args.t1 = [days |-> 35, minutes |-> 1439]
    /\ args.t2 = [days |-> 36, minutes |-> 9]
    /\ result.v1 = <<48, 48, 122, 51, 122>>
    /\ result.v2 = <<48, 49, 48, 48, 48>>

\* the text s without its trailing blank lines (lines of whitespace only)
RECURSIVE DropBlankTail(_)
DropBlankTail(s) ==
    IF s = <<>> THEN s
    ELSE IF \A i \in (RFind(s, 10) + 1)..Len(s) : IsWhitespace(s[i])
    THEN (IF RFind(s, 10) = 0 THEN <<>>
          ELSE DropBlankTail(SubSeq(s, 1, RFind(s, 10) - 1)))
    ELSE s

\* C23: baseline round trip. For every baseline b, reading the file
\* write_baseline(b) wrote yields b: the same version and `created`, and the
\* same summary with its line breaks, less its trailing blank lines only.
C23_BaselineRoundTrip ==
    (cmd = "write_baseline" /\ pc = "done") =>
        result = Ok(Some([version |-> args.version,
                          created |-> args.created,
                          summary |-> IF args.summary.some
                                      THEN Some(DropBlankTail(args.summary.val))
                                      ELSE None]))

\* how many entries of a runner log report success for the migration id
Successes(log, id) ==
    Cardinality({k \in 1..Len(log) : log[k].id = id /\ log[k].outcome = "success"})

\* how many records of the history have the id
Records(applied, id) ==
    Cardinality({k \in 1..Len(applied) : applied[k].id = id})

\* C24: concurrency gap. With two `up` runs interleaved on one directory,
\* nothing keeps the second record of a migration out of the history: the
\* history holds one record for each successful runner invocation of either
\* run, so a migration both runs had pending and both ran has two records.
C24_DuplicateRecords ==
    \A k \in 1..Len(other.runner_log) :
        Records(History, other.runner_log[k].id)
            >= Successes(runner_log, other.runner_log[k].id)
               + Successes(other.runner_log, other.runner_log[k].id)

\* both runs computed the same pending sequence, both ran its first
\* migration with success, and the history has two records with its id
C24_Witness ==
    /\ cmd = "up" /\ pc = "done" /\ other.pc = "done"
    /\ run.pending # <<>>
    /\ run.pending = other.pending
    /\ Successes(runner_log, run.pending[1].id) = 1
    /\ Successes(other.runner_log, run.pending[1].id) = 1
    /\ Records(History, run.pending[1].id) = 2

\* C26: the pending sequence is fixed for the run. `up` computes `pending`
\* from the directory and the history as they are when it starts, before any
\* runner invocation; while it runs, whatever files are added and whatever
\* records another process appends, `pending` stays as computed and each
\* iteration attempts the next migration of it, in its order.
C26_PendingFixed ==
    [][/\ (pc = "idle" /\ cmd' = "up" /\ pc' = "running") =>
            /\ runner_log' = <<>>
            /\ run'.pending = get_pending(discover_migrations(files), History)
       /\ (cmd = "up" /\ pc = "running") =>
            /\ run'.pending = run.pending
            /\ run'.i \in {run.i, run.i + 1}
            /\ (runner_log' # runner_log =>
                   /\ Len(runner_log') = Len(runner_log) + 1
                   /\ runner_log'[Len(runner_log')].id = run.pending[run.i].id)
            /\ (run'.last_applied_version # run.last_applied_version =>
                   run'.last_applied_version = Some(run.pending[run.i].version))
      ]_vars

\* a run that had two migrations pending and ran both; while it ran, a
\* third file was added, which the other process ran and recorded between
\* the two records of this run
C26_Witness ==
    /\ cmd = "up" /\ pc = "done" /\ result = "ok" /\ ~args.dry_run
    /\ Len(run.pending) = 2 /\ Len(runner_log) = 2
    /\ \E f \in files :
          \A k \in 1..Len(run.available) : run.available[k].id # extract_id(f)
    /\ Len(other.runner_log) = 2
    /\ other.runner_log[1].outcome = "success"
    /\ other.runner_log[2].outcome = "failure"
    /\ other.runner_log[1].id \notin {run.pending[1].id, run.pending[2].id}
    /\ IdsOf(History) = <<run.pending[1].id, other.runner_log[1].id,
                          run.pending[2].id>>

C27_OncePerPendingInOrder ==
    InUp =>
        /\ Len(runner_log) <= Len(run.pending)
        /\ \A k \in 1..Len(runner_log) :
               /\ runner_log[k].id = run.pending[k].id
               /\ (runner_log[k].outcome # "success" => k = Len(runner_log))
        /\ \A j, k \in 1..Len(run.pending) :
               j < k => /\ StrLe(run.pending[j].version, run.pending[k].version)
                        /\ run.pending[j].id # run.pending[k].id
        /\ (pc = "done" /\ result = "ok" /\ ~args.dry_run) =>
               /\ Len(runner_log) = Len(run.pending)
               /\ \A k \in 1..Len(runner_log) : runner_log[k].outcome = "success"

\* a completed run of three pending migrations: three invocations, one for
\* each, all successful
C27_Witness ==
    /\ cmd = "up" /\ pc = "done" /\ result = "ok" /\ ~args.dry_run
    /\ Len(run.pending) = 3
    /\ IdsOf(runner_log) = IdsOf(run.pending)
    /\ \A k \in 1..3 : runner_log[k].outcome = "success"

\* C28: the current version ignores the baseline. `status` reports the
\* current version that get_current_version computes from the files on disk
\* and the history alone: when no file on disk has a record, it reports none,
\* also when a baseline exists and the history has records.
C28_CurrentIgnoresBaseline ==
    (cmd = "status" /\ pc = "done" /\ report.some) =>
        /\ report.val.current =
               get_current_version(discover_migrations(files), History)
        /\ (\A f \in files : extract_id(f) \notin AppliedIds(History)) =>
               report.val.current = None

\* every migration was applied, `baseline` without --keep deleted every
\* file; `status` finds the baseline and three records, and no current
\* version
C28_Witness ==
    /\ cmd = "status" /\ pc = "done" /\ report.some
    /\ files = {}
    /\ CurrentBaseline.some
    /\ report.val.baseline.some
    /\ report.val.applied = 3
    /\ Len(History) = 3
    /\ report.val.current = None
    /\ report.val.line = "up_to_date_baselined"

\* C30: discover returns its migrations in ascending order of the version
\* string. Whatever the order of the directory listing, the result holds the
\* entries the pattern matches, each once, and the version of each is not
\* greater than the version of the next.
C30_DiscoverSorted ==
    (cmd = "discover_migrations" /\ pc = "done") =>
        /\ {result[k].file_path : k \in 1..Len(result)} =
               {args.listing[i] : i \in {j \in 1..Len(args.listing) :
                                            /\ GlobMatches(args.listing[j])
                                            /\ args.listing[j] \notin DirNames}}
        /\ \A j, k \in 1..Len(result) :
               j # k => result[j].file_path # result[k].file_path
        /\ \A k \in 1..(Len(result) - 1) :
               StrLe(result[k].version, result[k + 1].version)

\* a listing in descending order, and the version with a letter last in
\* the result
C30_Witness ==
    /\ cmd = "discover_migrations" /\ pc = "done"
    /\ args.listing = <<F_LETTER, F_HISTORY, F_B, F_A>>
    /\ [k \in 1..Len(result) |-> result[k].file_path] = <<F_A, F_B, F_LETTER>>

\* C31: the grammar of discover. The result has a migration for an entry of
\* the listing exactly when the entry is a regular file whose name is five
\* alphanumeric characters, a dash and at least one more character; the
\* version of the migration is the first five characters of the name, its
\* id the name without the part from its last `.` on.
C31_DiscoverGrammar ==
    (cmd = "discover_migrations" /\ pc = "done") =>
        /\ {result[k].file_path : k \in 1..Len(result)} =
               {args.listing[i] : i \in {j \in 1..Len(args.listing) :
                    /\ args.listing[j] \notin DirNames
                    /\ Len(args.listing[j]) >= 7
                    /\ \A c \in 1..5 : IsAsciiAlphanumeric(args.listing[j][c])
                    /\ args.listing[j][6] = 45}}
        /\ \A k \in 1..Len(result) :
               /\ result[k].version = SubSeq(result[k].file_path, 1, 5)
               /\ result[k].id =
                      IF RFind(result[k].file_path, 46) = 0
                      THEN result[k].file_path
                      ELSE SubSeq(result[k].file_path, 1,
                                  RFind(result[k].file_path, 46) - 1)

\* C32: tolerant history parsing. When every line of the file that splits
\* at spaces into exactly two tokens has a timestamp for its second token,
\* read_history returns Ok with the records of these lines in file order:
\* the lines of one token and of three or more tokens are skipped.
C32_TolerantHistory ==
    (cmd = "read_history" /\ pc = "done") =>
        LET tokens(l) == Cardinality({i \in 1..Len(trim(l)) : trim(l)[i] = 32}) + 1
            records == SelectSeq(args.lines, LAMBDA l : tokens(l) = 2)
            ts(l) == parse_from_rfc3339(
                         SubSeq(trim(l), Find(trim(l), 32) + 1, Len(trim(l))))
        IN  (\A k \in 1..Len(records) : ts(records[k]).ok) =>
                result = Ok([k \in 1..Len(records) |->
                               [id |-> SubSeq(trim(records[k]), 1,
                                              Find(trim(records[k]), 32) - 1),
                                applied_at |-> ts(records[k]).val]])

\* C33: strict timestamps. When a line of the history file splits into an id
\* and a second token that is not a timestamp, read_history returns a parse
\* error and no record, and `status`, `up` and `baseline` on the directory
\* return that error: the runner is not invoked, and the history, the
\* baseline and the migration files are left as they were.
C33_StrictTimestamps ==
    [][(/\ pc = "idle" /\ pc' # "idle" /\ dir_exists /\ history_exists
        /\ \E k \in 1..Len(history_lines) :
              /\ Find(trim(history_lines[k]), 32) # 0
              /\ ~parse_from_rfc3339(
                     SubSeq(trim(history_lines[k]),
                            Find(trim(history_lines[k]), 32) + 1,
                            Len(trim(history_lines[k])))).ok) =>
         /\ read_history(history_exists, history_lines) = Err("parse")
         /\ (cmd' \in {"status", "up", "baseline"} =>
                /\ pc' = "done"
                /\ result' = "parse"
                /\ runner_log' = <<>>
                /\ UNCHANGED <<files, history_exists, history_lines,
                               baseline_file>>)
      ]_vars

\* two records and the rest of an interrupted third; `up` returned the
\* parse error
C33_Witness ==
    /\ cmd = "up" /\ pc = "done" /\ result = "parse"
    /\ Len(history_lines) = 3
    /\ history_lines[3] \in CorruptLines
    /\ files # {}
    /\ runner_log = <<>>

\* C34: the summary block of the baseline parser. A line is inside a block
\* when a `summary: |` line precedes it and every line from there to it is
\* empty or starts with a space. The lines outside the blocks are read as
\* `key: value` lines, the line that ends a block included: the version and
\* `created` of the result are those of the last such lines, and the parse
\* fails when one of the two is missing. With one `summary: |` line and a
\* block that is not empty, the summary is the lines of the block, two
\* spaces of indent removed or else the leading spaces, joined, without
\* trailing whitespace.
C34_SummaryBlock ==
    (cmd = "parse_baseline" /\ pc = "done") =>
        LET lines == args.lines
            opener == KEY_SUMMARY \o <<32, 124>>
            inBlock(k) ==
                \E q \in 1..(k - 1) :
                    /\ lines[q] = opener
                    /\ \A j \in (q + 1)..k : lines[j] = <<>> \/ lines[j][1] = 32
            normal(key) == {k \in 1..Len(lines) :
                               ~inBlock(k) /\ StartsWith(lines[k], key)}
            last(S) == CHOOSE k \in S : \A j \in S : j <= k
            value(k) == trim(SubSeq(lines[k], 9, Len(lines[k])))
            openers == {k \in 1..Len(lines) : lines[k] = opener}
            block == SelectSeq([k \in 1..Len(lines) |-> IF inBlock(k) THEN <<lines[k]>> ELSE <<>>],
                               LAMBDA x : x # <<>>)
            content(l) == IF StartsWith(l, INDENT) THEN SubSeq(l, 3, Len(l))
                          ELSE trim_start(l)
        IN  IF normal(KEY_VERSION) = {} \/ normal(KEY_CREATED) = {}
            THEN ~result.ok
            ELSE /\ result.ok
                 /\ result.val.version = value(last(normal(KEY_VERSION)))
                 /\ to_rfc3339(result.val.created) = value(last(normal(KEY_CREATED)))
                 /\ (Cardinality(openers) = 1 /\ block # <<>>) =>
                        result.val.summary =
                            Some(trim_end(Join([k \in 1..Len(block) |->
                                                  content(block[k][1])])))
                 /\ openers = {} => result.val.summary = None

\* `version:` and `created:` after a summary block of one line
C34_Witness ==
    /\ cmd = "parse_baseline" /\ pc = "done"
    /\ args.lines = <<KEY_SUMMARY \o <<32, 124>>, <<32, 32, 115>>,
                      KEY_VERSION \o <<32>> \o SubSeq(F_A, 1, 5),
                      KEY_CREATED \o <<32>> \o to_rfc3339(0)>>
    /\ result = Ok([version |-> SubSeq(F_A, 1, 5), created |-> 0,
                    summary |-> Some(<<115>>)])

\* C35: the block form of write_baseline. For a baseline with a summary the
\* file has the line `summary: |` after the version and `created`, then the
\* lines of the summary, each behind two spaces, and the last line of the
\* file is not blank.
C35_WriteBlockForm ==
    (cmd = "write_baseline" /\ pc = "done" /\ args.summary.some) =>
        /\ Len(write_baseline(args)) >= 3
        /\ write_baseline(args)[3] = KEY_SUMMARY \o <<32, 124>>
        /\ \A k \in 4..Len(write_baseline(args)) :
               StartsWith(write_baseline(args)[k], INDENT)
        /\ \E i \in 1..Len(write_baseline(args)[Len(write_baseline(args))]) :
               ~IsWhitespace(write_baseline(args)[Len(write_baseline(args))][i])

\* C36: the baseline `up --baseline` writes is a valid target. At the step
\* that writes it, a migration on disk has its version, the baseline that
\* existed before has no greater version, and every migration on disk at or
\* below it has its id in the history.
C36_UpBaselineValid ==
    [][(cmd = "up" /\ pc = "running" /\ pc' = "done"
           /\ args.create_baseline /\ ~args.dry_run
           /\ result' \in {"ok", "io_error"}) =>
           /\ BaselineOf(baseline_file').some
           /\ LET k == ValidateConditions(
                           BaselineOf(baseline_file').val.version,
                           {discover_migrations(files)[i] :
                                i \in DOMAIN discover_migrations(files)},
                           AppliedIds(HistoryOf(history_exists', history_lines')),
                           CurrentBaseline)
              IN  k.a /\ k.b /\ k.c]_vars

\* C37: `up --baseline` with nothing pending. When every available
\* migration has a record, the command returns Ok at once: the baseline
\* file, the migration files and the history are as they were, whatever the
\* existing baseline.
C37_NothingPendingNoBaseline ==
    [][(/\ pc = "idle" /\ cmd' = "up" /\ args'.create_baseline
        /\ dir_exists /\ Load.ok
        /\ \A f \in files : extract_version(f).some =>
                                 extract_id(f) \in AppliedIds(History)) =>
           /\ pc' = "done"
           /\ result' = "ok"
           /\ UNCHANGED <<baseline_file, files, history_exists, history_lines>>
      ]_vars

\* three migrations on disk, all applied, above the baseline at the first:
\* `up --baseline` leaves the baseline where it is
C37_Witness ==
    /\ cmd = "up" /\ pc = "done" /\ result = "ok"
    /\ args.create_baseline /\ ~args.dry_run /\ ~args.keep
    /\ run.pending = <<>>
    /\ Len(run.applied) = 3
    /\ files = {F_B, F_C}
    /\ CurrentBaseline.some
    /\ CurrentBaseline.val.version = SubSeq(F_A, 1, 5)

\* C38: dry-run compaction changes nothing. No step of `baseline <v>
\* --dry-run` and no step of `up --dry-run --baseline` changes the baseline
\* file, the migration files or the history, and the runner is not invoked;
\* `baseline <v> --dry-run` returns the error of the validation when the
\* version is not a valid target, and Ok when it is.
C38_DryRunChangesNothing ==
    [][/\ (cmd' = "baseline" /\ pc = "idle" /\ args'.dry_run) =>
            /\ UNCHANGED <<baseline_file, files, history_exists, history_lines>>
            /\ (dir_exists /\ Load.ok) =>
                   /\ ValidateAgrees(args'.version, Load, result')
                   /\ result' # "io_error"
       /\ (cmd' = "up" /\ pc # "done" /\ args'.dry_run /\ args'.create_baseline) =>
            /\ UNCHANGED <<baseline_file, files, history_exists, history_lines>>
            /\ runner_log' = <<>>
      ]_vars

\* a dry run of `baseline` on a valid target, above the existing baseline,
\* with files it would delete
C38_Witness ==
    /\ cmd = "baseline" /\ pc = "done" /\ result = "ok"
    /\ args.dry_run /\ ~args.keep
    /\ args.version = SubSeq(F_C, 1, 5)
    /\ CurrentBaseline.some
    /\ CurrentBaseline.val.version = SubSeq(F_A, 1, 5)
    /\ files = {F_B, F_C}
    /\ Len(History) = 3

\* the file f is out of order: it has no record in `applied`, its version
\* is below the current version and above the one of the baseline, when
\* there is one
OutOfOrder(f, current, applied, baseline) ==
    /\ extract_version(f).some
    /\ current.some
    /\ StrLt(extract_version(f).val, current.val)
    /\ extract_id(f) \notin AppliedIds(applied)
    /\ baseline.some => StrLt(baseline.val.version, extract_version(f).val)

\* C39: out-of-order migrations are applied. A migration file that is out
\* of order when `up` starts is in the pending sequence of the run. When
\* the run reaches it, the runner is invoked for it; on success its record
\* becomes the last record of the history, after records of greater
\* versions, and the current version stays what it was.
C39_OutOfOrderApplied ==
    [][/\ (pc = "idle" /\ cmd' = "up" /\ dir_exists /\ Load.ok) =>
            LET current == get_current_version(discover_migrations(files), History)
            IN  \A f \in files :
                    OutOfOrder(f, current, History, CurrentBaseline) =>
                        /\ pc' = "running"
                        /\ \E k \in 1..Len(run'.pending) :
                               run'.pending[k].file_path = f
       /\ (/\ cmd = "up" /\ pc = "running" /\ ~args.dry_run
           /\ run.pending[run.i].file_path \in files
           /\ OutOfOrder(run.pending[run.i].file_path,
                         get_current_version(discover_migrations(files), History),
                         History, CurrentBaseline)) =>
            /\ Len(runner_log') = Len(runner_log) + 1
            /\ runner_log'[Len(runner_log')].id = run.pending[run.i].id
            /\ runner_log'[Len(runner_log')].outcome = "success" =>
                   /\ IdsOf(HistoryOf(history_exists', history_lines')) =
                          Append(IdsOf(History), run.pending[run.i].id)
                   /\ get_current_version(discover_migrations(files),
                          HistoryOf(history_exists', history_lines')) =
                      get_current_version(discover_migrations(files), History)
      ]_vars

\* 00003-c was applied, then 00001-a was added and applied: the history
\* has c before a and the current version is still 00003
C39_Witness ==
    /\ cmd = "up" /\ pc = "done" /\ result = "ok"
    /\ files = {F_A, F_C}
    /\ ~CurrentBaseline.some
    /\ IdsOf(run.applied) = <<extract_id(F_C)>>
    /\ runner_log = <<[id |-> extract_id(F_A), outcome |-> "success"]>>
    /\ IdsOf(History) = <<extract_id(F_C), extract_id(F_A)>>
    /\ get_current_version(discover_migrations(files), History)
           = Some(SubSeq(F_C, 1, 5))

\* C40: `up` without --baseline. No step of the command, in a run that
\* completes or in one that fails, changes the baseline file or the set of
\* migration files; the history file only gets records appended.
C40_UpOnlyAppendsHistory ==
    [][(cmd' = "up" /\ pc # "done" /\ ~args'.create_baseline) =>
           /\ UNCHANGED <<dir_exists, files, baseline_file>>
           /\ IsPrefix(history_lines, history_lines')
           /\ (history_exists => history_exists')
           /\ (history_lines' # history_lines =>
                   /\ Len(history_lines') = Len(history_lines) + 1
                   /\ runner_log' # runner_log)
      ]_vars

\* a run without --baseline on a directory with a baseline and three
\* files: one migration applied, the next one failed
C40_Witness ==
    /\ cmd = "up" /\ pc = "done" /\ result = "execution_error"
    /\ ~args.create_baseline /\ ~args.dry_run
    /\ baseline_file.some
    /\ files = MigrationFiles
    /\ Len(runner_log) = 2
    /\ runner_log[1].outcome = "success"
    /\ Len(history_lines) = Len(run.applied) + 1

====
